---- MODULE Spec2Model ----
(***************************************************************************)
(* A model of the BusTub buffer pool kept in this repository:              *)
(*   - LRUReplacer and ClockReplacer (the replacement policies),           *)
(*   - BufferPoolManagerInstance (frames, free list, replacer, disk I/O),  *)
(*   - ParallelBufferPoolManager (page-id sharding over N instances).      *)
(* The instance keeps no page table: every lookup is a scan of pages_ for  *)
(* the first frame whose page id equals the argument.                      *)
(***************************************************************************)
EXTENDS Integers, Sequences, FiniteSets, TLC

\* ------------------------------------------------------------------ bounds
PoolSize == 2        \* frames of one instance (constructor argument pool_size)
MaxPageId == 3       \* New is explored while next_page_id_ < MaxPageId
MaxData == 1         \* page contents are 0..MaxData, 0 being the zeroed page
MaxPin == 2          \* Fetch hits are explored while pin_count_ < MaxPin
NumInstances == 2    \* instances of the parallel pool (num_instances)
ParPoolSize == 2     \* frames of each instance of the parallel pool
ParMaxPageId == 4    \* the parallel pool's New is explored below this id
RoundRobinMaxPageId == 8   \* New is explored below this id in SpecRoundRobin
ClockNumPages == 3   \* frames of the stand-alone ClockReplacer (num_pages)
NumThreads == 2      \* threads calling one instance concurrently
MaxFreeList == 3      \* free_list_ entries when INVALID_PAGE_ID is passed to Delete
LRUNumPages == 3     \* frames of the stand-alone LRUReplacer (num_pages)
LRUMaxUnpins == 5    \* Unpin calls made on the stand-alone LRUReplacer

\* --------------------------------------------------------------- constants
INVALID_PAGE_ID == -1
nullptr == -1

Frames == 0 .. (PoolSize - 1)
PageIds == 0 .. (MaxPageId - 1)
Data == 0 .. MaxData
Instances == 0 .. (NumInstances - 1)
ParPageIds == 0 .. (ParMaxPageId - 1)
ClockFrames == 0 .. (ClockNumPages - 1)
Threads == 1 .. NumThreads
LRUFrames == 0 .. (LRUNumPages - 1)

VARIABLES
  bpm,         \* the BufferPoolManagerInstance under test
  disk,        \* DiskManager: the stored content of every page
  call,        \* the last call made on the pool and what it returned
  written,     \* per page, the content a caller last gave it
  touched      \* per frame, data changed by a caller and not yet unpinned dirty

VARIABLES
  bpInstances,     \* ParallelBufferPoolManager: its instances, by index
  starting_index,  \* ParallelBufferPoolManager: where the next New starts
  served,          \* the instance the last call of the parallel pool went to
  news             \* the <<page id, instance>> pairs New has returned, in order

VARIABLES
  resident,        \* ClockReplacer: the frame is a candidate
  clock,           \* ClockReplacer: the reference (second chance) bit
  current_frame,   \* ClockReplacer: the hand
  rcall            \* the last replacer call and what it returned

VARIABLES
  thr,             \* per thread, the call it is in and that call's locals
  latch_,          \* BufferPoolManagerInstance::latch_: the thread holding it
  rwlatch,         \* per frame, the thread holding the page's write latch
  unsaved          \* per frame, marked dirty by Unpin and not written since

VARIABLES
  frames,          \* LRUReplacer::frames, front = next victim
  stamp,           \* per frame, the number of its latest Unpin; 0 = not evictable
  now,             \* Unpin calls made so far
  lcall            \* the last LRUReplacer call and what it returned

instVars == <<bpm, disk>>
ghostVars == <<written, touched>>
parVars == <<bpInstances, starting_index, served, news>>
clockVars == <<resident, clock, current_frame, rcall>>
concVars == <<thr, latch_, rwlatch, unsaved>>
lruVars == <<frames, stamp, now, lcall>>
restVars == <<parVars, clockVars, concVars, lruVars>>
vars == <<bpm, disk, call, written, touched, parVars, clockVars, concVars,
          lruVars>>

\* ---------------------------------------------------------------- helpers
\* std::find followed by erase: removes the first occurrence only.
RemoveFirst(s, x) ==
  IF \E i \in 1 .. Len(s) : s[i] = x
  THEN LET i == CHOOSE i \in 1 .. Len(s) :
                  s[i] = x /\ \A j \in 1 .. (i - 1) : s[j] # x
       IN SubSeq(s, 1, i - 1) \o SubSeq(s, i + 1, Len(s))
  ELSE s

InSeq(s, x) == \E i \in 1 .. Len(s) : s[i] = x

\* ------------------------------------------------------------ LRUReplacer
\* The replacer state is the deque `frames`; front = least recently unpinned.
LRUVictim(fr) ==
  IF Len(fr) = 0
  THEN [ok |-> FALSE, frame_id |-> nullptr, frames |-> fr]
  ELSE [ok |-> TRUE, frame_id |-> Head(fr), frames |-> Tail(fr)]

LRUPin(fr, frame_id) == RemoveFirst(fr, frame_id)

\* Mutant of LRUUnpin: a frame already in the deque keeps its position.
LRUUnpin_KeepsPosition(fr, frame_id) ==
  IF InSeq(fr, frame_id) THEN fr ELSE Append(fr, frame_id)

LRUUnpin(fr, frame_id) == Append(RemoveFirst(fr, frame_id), frame_id)

LRUSize(fr) == Len(fr)

\* ------------------------------------------------------------ DiskManager
WritePage(d, page_id, data) ==
  IF page_id \in DOMAIN d THEN [d EXCEPT ![page_id] = data] ELSE d

ReadPage(d, page_id) == IF page_id \in DOMAIN d THEN d[page_id] ELSE 0

\* -------------------------------------------------------------------- Page
Page == [page_id_ |-> INVALID_PAGE_ID, pin_count_ |-> 0, is_dirty_ |-> FALSE,
         data_ |-> 0]

\* ---------------------------------------------- BufferPoolManagerInstance
BufferPoolManagerInstance(pool_size, num_instances, instance_index) ==
  [pool_size_ |-> pool_size,
   num_instances_ |-> num_instances,
   instance_index_ |-> instance_index,
   next_page_id_ |-> instance_index,
   pages_ |-> [i \in 0 .. (pool_size - 1) |-> Page],
   replacer_ |-> <<>>,
   free_list_ |-> [i \in 1 .. pool_size |-> i - 1]]

\* The scan `for i in 0..pool_size_: if pages_[i].GetPageId() == page_id`:
\* the first matching frame, or nullptr.
FindFrame(m, page_id) ==
  LET hits == {i \in DOMAIN m.pages_ : m.pages_[i].page_id_ = page_id}
  IN IF hits = {} THEN nullptr
     ELSE CHOOSE i \in hits : \A j \in hits : i <= j

Resident(m, x) == FindFrame(m, x) # nullptr

AllPinned(m) == \A f \in DOMAIN m.pages_ : m.pages_[f].pin_count_ > 0

\* Every operation returns the instance and the disk after the call, its
\* return value, and the WritePage calls it issued, in order.
Result(m, d, ok, frame, page_id, writes) ==
  [bpm |-> m, disk |-> d, ok |-> ok, frame |-> frame, page_id |-> page_id,
   writes |-> writes]

\* Mutant of FlushPgImp: the write is issued but SetDirty(false) is left out.
FlushPgImp_KeepsDirty(m, d, page_id) ==
  LET hits == {i \in DOMAIN m.pages_ : m.pages_[i].page_id_ = page_id}
      i == IF hits = {} THEN nullptr
           ELSE CHOOSE i \in hits : \A j \in hits : i <= j
  IN IF i = nullptr
     THEN [bpm |-> m, disk |-> d, ok |-> FALSE, frame |-> nullptr,
           page_id |-> page_id, writes |-> <<>>]
     ELSE IF m.pages_[i].is_dirty_
          THEN [bpm |-> m,
                disk |-> WritePage(d, m.pages_[i].page_id_, m.pages_[i].data_),
                ok |-> TRUE, frame |-> i, page_id |-> page_id,
                writes |-> <<<<m.pages_[i].page_id_, m.pages_[i].data_>>>>]
          ELSE [bpm |-> m, disk |-> d, ok |-> TRUE, frame |-> i,
                page_id |-> page_id, writes |-> <<>>]

FlushPgImp(m, d, page_id) ==
  LET i == FindFrame(m, page_id)
  IN IF i = nullptr
     THEN Result(m, d, FALSE, nullptr, page_id, <<>>)
     ELSE IF m.pages_[i].is_dirty_
          THEN Result([m EXCEPT !.pages_[i].is_dirty_ = FALSE],
                      WritePage(d, m.pages_[i].page_id_, m.pages_[i].data_),
                      TRUE, i, page_id,
                      <<<<m.pages_[i].page_id_, m.pages_[i].data_>>>>)
          ELSE Result(m, d, TRUE, i, page_id, <<>>)

RECURSIVE FlushAllFrom(_, _, _, _)
FlushAllFrom(m, d, i, writes) ==
  IF i >= m.pool_size_
  THEN Result(m, d, TRUE, nullptr, INVALID_PAGE_ID, writes)
  ELSE IF m.pages_[i].is_dirty_
       THEN FlushAllFrom([m EXCEPT !.pages_[i].is_dirty_ = FALSE],
                         WritePage(d, m.pages_[i].page_id_, m.pages_[i].data_),
                         i + 1,
                         Append(writes,
                                <<m.pages_[i].page_id_, m.pages_[i].data_>>))
       ELSE FlushAllFrom(m, d, i + 1, writes)

FlushAllPgsImp(m, d) == FlushAllFrom(m, d, 0, <<>>)

\* Mutant of AllocatePage: next_page_id_ grows by 1, not by num_instances_.
AllocatePage_PlusOne(m) ==
  [page_id |-> m.next_page_id_,
   bpm |-> [m EXCEPT !.next_page_id_ = m.next_page_id_ + 1]]

AllocatePage(m) ==
  [page_id |-> m.next_page_id_,
   bpm |-> [m EXCEPT !.next_page_id_ = m.next_page_id_ + m.num_instances_]]

\* The provisioning of a frame shared by NewPgImp (lines 91-105) and
\* FetchPgImp (lines 147-161): the free list first, else a victim, written
\* back when dirty.  dirty_after_write is what SetDirty gets after the write
\* (false at line 102, true at line 158).
\* Mutant of Provision: a dirty victim is reused without WritePage.
Provision_NoWriteBack(m, d, dirty_after_write) ==
  IF Len(m.free_list_) > 0
  THEN [ok |-> TRUE, id |-> Head(m.free_list_),
        bpm |-> [m EXCEPT !.free_list_ = Tail(m.free_list_)],
        disk |-> d, writes |-> <<>>]
  ELSE LET v == LRUVictim(m.replacer_)
       IN IF ~v.ok
          THEN [ok |-> FALSE, id |-> nullptr, bpm |-> m, disk |-> d,
                writes |-> <<>>]
          ELSE [ok |-> TRUE, id |-> v.frame_id,
                bpm |-> [m EXCEPT !.replacer_ = v.frames],
                disk |-> d, writes |-> <<>>]

Provision(m, d, dirty_after_write) ==
  IF Len(m.free_list_) > 0
  THEN [ok |-> TRUE, id |-> Head(m.free_list_),
        bpm |-> [m EXCEPT !.free_list_ = Tail(m.free_list_)],
        disk |-> d, writes |-> <<>>]
  ELSE LET v == LRUVictim(m.replacer_)
       IN IF ~v.ok
          THEN [ok |-> FALSE, id |-> nullptr, bpm |-> m, disk |-> d,
                writes |-> <<>>]
          ELSE LET id == v.frame_id
                   m1 == [m EXCEPT !.replacer_ = v.frames]
               IN IF m.pages_[id].is_dirty_
                  THEN [ok |-> TRUE, id |-> id,
                        bpm |-> [m1 EXCEPT !.pages_[id].is_dirty_ =
                                              dirty_after_write],
                        disk |-> WritePage(d, m.pages_[id].page_id_,
                                           m.pages_[id].data_),
                        writes |-> <<<<m.pages_[id].page_id_,
                                       m.pages_[id].data_>>>>]
                  ELSE [ok |-> TRUE, id |-> id, bpm |-> m1, disk |-> d,
                        writes |-> <<>>]

NewPgImp(m, d) ==
  LET p == Provision(m, d, FALSE)
  IN IF ~p.ok
     THEN Result(m, d, FALSE, nullptr, INVALID_PAGE_ID, <<>>)
     ELSE LET a == AllocatePage(p.bpm)
          IN Result([a.bpm EXCEPT !.pages_[p.id] =
                        [page_id_ |-> a.page_id, pin_count_ |-> 1,
                         is_dirty_ |-> TRUE, data_ |-> 0]],
                    p.disk, TRUE, p.id, a.page_id, p.writes)

FetchPgImp(m, d, page_id) ==
  LET i == FindFrame(m, page_id)
  IN IF i # nullptr
     THEN Result([m EXCEPT !.replacer_ = LRUPin(m.replacer_, i),
                           !.pages_[i].pin_count_ = m.pages_[i].pin_count_ + 1],
                 d, TRUE, i, page_id, <<>>)
     ELSE LET p == Provision(m, d, TRUE)
          IN IF ~p.ok
             THEN Result(m, d, FALSE, nullptr, page_id, <<>>)
             ELSE Result([p.bpm EXCEPT !.pages_[p.id] =
                             [page_id_ |-> page_id, pin_count_ |-> 1,
                              is_dirty_ |-> FALSE,
                              data_ |-> ReadPage(p.disk, page_id)]],
                         p.disk, TRUE, p.id, page_id, p.writes)

\* Mutant of DeletePgImp: the frame goes to the free list with its page id
\* left in place (SetPageId(INVALID_PAGE_ID) left out).
DeletePgImp_KeepsPageId(m, d, page_id) ==
  LET i == FindFrame(m, page_id)
  IN IF i = nullptr
     THEN Result(m, d, TRUE, nullptr, page_id, <<>>)
     ELSE IF m.pages_[i].pin_count_ # 0
          THEN Result(m, d, FALSE, i, page_id, <<>>)
          ELSE Result([m EXCEPT !.free_list_ = Append(m.free_list_, i),
                                !.pages_[i].pin_count_ = 0,
                                !.pages_[i].is_dirty_ = FALSE,
                                !.pages_[i].data_ = 0],
                      d, TRUE, i, page_id, <<>>)

DeletePgImp(m, d, page_id) ==
  LET i == FindFrame(m, page_id)
  IN IF i = nullptr
     THEN Result(m, d, TRUE, nullptr, page_id, <<>>)
     ELSE IF m.pages_[i].pin_count_ # 0
          THEN Result(m, d, FALSE, i, page_id, <<>>)
          ELSE Result([m EXCEPT !.free_list_ = Append(m.free_list_, i),
                                !.pages_[i] = Page],
                      d, TRUE, i, page_id, <<>>)

\* Mutant of UnpinPgImp: SetDirty(is_dirty) in place of
\* `if (is_dirty) SetDirty(true)`.
UnpinPgImp_AssignsDirty(m, d, page_id, is_dirty) ==
  LET i == FindFrame(m, page_id)
  IN IF i = nullptr
     THEN Result(m, d, FALSE, nullptr, page_id, <<>>)
     ELSE IF m.pages_[i].pin_count_ <= 0
          THEN Result(m, d, FALSE, i, page_id, <<>>)
          ELSE LET m1 == [m EXCEPT
                            !.pages_[i].pin_count_ = m.pages_[i].pin_count_ - 1,
                            !.pages_[i].is_dirty_ = is_dirty]
               IN Result(IF m1.pages_[i].pin_count_ = 0
                         THEN [m1 EXCEPT !.replacer_ = LRUUnpin(m1.replacer_, i)]
                         ELSE m1,
                         d, TRUE, i, page_id, <<>>)

\* Mutant of UnpinPgImp: the test `GetPinCount() <= 0` is left out.
UnpinPgImp_NoPinCheck(m, d, page_id, is_dirty) ==
  LET i == FindFrame(m, page_id)
  IN IF i = nullptr
     THEN Result(m, d, FALSE, nullptr, page_id, <<>>)
     ELSE LET m1 == [m EXCEPT
                       !.pages_[i].pin_count_ = m.pages_[i].pin_count_ - 1,
                       !.pages_[i].is_dirty_ =
                          (is_dirty \/ m.pages_[i].is_dirty_)]
          IN Result(IF m1.pages_[i].pin_count_ = 0
                    THEN [m1 EXCEPT !.replacer_ = LRUUnpin(m1.replacer_, i)]
                    ELSE m1,
                    d, TRUE, i, page_id, <<>>)

UnpinPgImp(m, d, page_id, is_dirty) ==
  LET i == FindFrame(m, page_id)
  IN IF i = nullptr
     THEN Result(m, d, FALSE, nullptr, page_id, <<>>)
     ELSE IF m.pages_[i].pin_count_ <= 0
          THEN Result(m, d, FALSE, i, page_id, <<>>)
          ELSE LET m1 == [m EXCEPT
                            !.pages_[i].pin_count_ = m.pages_[i].pin_count_ - 1,
                            !.pages_[i].is_dirty_ =
                               (is_dirty \/ m.pages_[i].is_dirty_)]
               IN Result(IF m1.pages_[i].pin_count_ = 0
                         THEN [m1 EXCEPT !.replacer_ = LRUUnpin(m1.replacer_, i)]
                         ELSE m1,
                         d, TRUE, i, page_id, <<>>)

\* -------------------------------------------------- ParallelBufferPoolManager
\* size_t starting_index is given no value by the constructor in
\* parallel_buffer_pool_manager.cpp; its declaration is in the header.
StartingIndexInit == 0

ParallelBufferPoolManager(num_instances, pool_size) ==
  [i \in 0 .. (num_instances - 1) |->
     BufferPoolManagerInstance(pool_size, num_instances, i)]

\* 2^e mod n, for the conversion of a negative page_id_t to size_t.
RECURSIVE Pow2Mod(_, _)
Pow2Mod(e, n) == IF e = 0 THEN 1 % n ELSE (2 * Pow2Mod(e - 1, n)) % n

\* size_t inst = page_id % bpInstances.size(): the index of the instance.
GetBufferPoolManager(insts, page_id) ==
  LET n == Cardinality(DOMAIN insts)
  IN IF page_id >= 0 THEN page_id % n
     ELSE (Pow2Mod(64, n) + (page_id % n)) % n

ParResult(insts, start, r, k) ==
  [bpInstances |-> insts, starting_index |-> start, disk |-> r.disk,
   ok |-> r.ok, page_id |-> r.page_id, served |-> k, writes |-> r.writes]

ParallelFetchPgImp(insts, start, d, page_id) ==
  LET k == GetBufferPoolManager(insts, page_id)
      r == FetchPgImp(insts[k], d, page_id)
  IN ParResult([insts EXCEPT ![k] = r.bpm], start, r, k)

ParallelUnpinPgImp(insts, start, d, page_id, is_dirty) ==
  LET k == GetBufferPoolManager(insts, page_id)
      r == UnpinPgImp(insts[k], d, page_id, is_dirty)
  IN ParResult([insts EXCEPT ![k] = r.bpm], start, r, k)

ParallelFlushPgImp(insts, start, d, page_id) ==
  LET k == GetBufferPoolManager(insts, page_id)
      r == FlushPgImp(insts[k], d, page_id)
  IN ParResult([insts EXCEPT ![k] = r.bpm], start, r, k)

ParallelDeletePgImp(insts, start, d, page_id) ==
  LET k == GetBufferPoolManager(insts, page_id)
      r == DeletePgImp(insts[k], d, page_id)
  IN ParResult([insts EXCEPT ![k] = r.bpm], start, r, k)

\* The loop of NewPgImp from its i-th round on.
RECURSIVE ParallelNewFrom(_, _, _, _)
ParallelNewFrom(insts, start, d, i) ==
  LET n == Cardinality(DOMAIN insts)
  IN IF i >= n
     THEN [bpInstances |-> insts, starting_index |-> start, disk |-> d,
           ok |-> FALSE, page_id |-> INVALID_PAGE_ID, served |-> nullptr,
           writes |-> <<>>]
     ELSE LET index == (start + i) % n
              r == NewPgImp(insts[index], d)
          IN IF r.ok
             THEN ParResult([insts EXCEPT ![index] = r.bpm], start + 1, r,
                            index)
             ELSE ParallelNewFrom(insts, start, d, i + 1)

\* Mutant of ParallelNewPgImp: the search always starts at instance 0.
ParallelNewPgImp_FromZero(insts, start, d) ==
  LET r == ParallelNewFrom(insts, 0, d, 0)
  IN [r EXCEPT !.starting_index = IF r.ok THEN start + 1 ELSE start]

ParallelNewPgImp(insts, start, d) == ParallelNewFrom(insts, start, d, 0)

RECURSIVE ParallelFlushAllFrom(_, _, _)
ParallelFlushAllFrom(insts, d, i) ==
  IF i >= Cardinality(DOMAIN insts)
  THEN [bpInstances |-> insts, disk |-> d]
  ELSE LET r == FlushAllPgsImp(insts[i], d)
       IN ParallelFlushAllFrom([insts EXCEPT ![i] = r.bpm], r.disk, i + 1)

ParallelFlushAllPgsImp(insts, d) == ParallelFlushAllFrom(insts, d, 0)

\* -------------------------------------------------------------- ClockReplacer
\* size_t current_frame is given no value by the constructor; its
\* declaration is in the header.
ClockHandInit == 0

ClockSize(res) == Cardinality({f \in DOMAIN res : res[f]})

\* Mutant of ClockScan: the first resident slot from the hand is returned
\* whatever its reference bit.
RECURSIVE ClockScan_NoSecondChance(_, _, _, _)
ClockScan_NoSecondChance(res, clk, cur, steps) ==
  LET n == Cardinality(DOMAIN clk)
  IN IF res[cur]
     THEN [ok |-> TRUE, frame_id |-> cur, resident |-> res, clock |-> clk,
           current_frame |-> (cur + 1) % n, steps |-> steps + 1]
     ELSE ClockScan_NoSecondChance(res, clk, (cur + 1) % n, steps + 1)

\* The while (true) loop of Victim, entered with at least one resident bit
\* set; steps counts the iterations made so far.
RECURSIVE ClockScan(_, _, _, _)
ClockScan(res, clk, cur, steps) ==
  LET n == Cardinality(DOMAIN clk)
  IN IF res[cur]
     THEN IF clk[cur]
          THEN ClockScan(res, [clk EXCEPT ![cur] = FALSE], (cur + 1) % n,
                         steps + 1)
          ELSE [ok |-> TRUE, frame_id |-> cur, resident |-> res,
                clock |-> clk, current_frame |-> (cur + 1) % n,
                steps |-> steps + 1]
     ELSE ClockScan(res, clk, (cur + 1) % n, steps + 1)

\* Mutant of ClockVictim: with no resident bit set the hand goes round once
\* before the call gives up.
ClockVictim_SweepsWhenEmpty(res, clk, cur) ==
  IF \A f \in DOMAIN res : ~res[f]
  THEN [ok |-> FALSE, frame_id |-> nullptr, resident |-> res, clock |-> clk,
        current_frame |-> cur, steps |-> Cardinality(DOMAIN clk)]
  ELSE ClockScan(res, clk, cur, 0)

ClockVictim(res, clk, cur) ==
  IF \A f \in DOMAIN res : ~res[f]
  THEN [ok |-> FALSE, frame_id |-> nullptr, resident |-> res, clock |-> clk,
        current_frame |-> cur, steps |-> 0]
  ELSE ClockScan(res, clk, cur, 0)

ClockPin(res, frame_id) == [res EXCEPT ![frame_id] = FALSE]

ClockUnpin(res, clk, frame_id) ==
  [resident |-> [res EXCEPT ![frame_id] = TRUE],
   clock |-> [clk EXCEPT ![frame_id] = TRUE]]

\* ------------------------------------------ one instance, one caller thread
\* `call` records the last call: its name and whether it succeeded (a
\* non-null Page*, or true).
Call(op, ok) == [op |-> op, ok |-> ok]

InstInit ==
  /\ bpm = BufferPoolManagerInstance(PoolSize, 1, 0)
  /\ disk = [p \in PageIds |-> 0]

GhostIdle ==
  /\ written = [p \in PageIds |-> 0]
  /\ touched = [f \in Frames |-> FALSE]

CallInit == call = Call("none", TRUE)

\* The parallel pool and the stand-alone replacer are not part of the runs of
\* one instance: they stay as constructed.
ParIdle ==
  /\ bpInstances = <<>>
  /\ starting_index = 0
  /\ served = nullptr
  /\ news = <<>>

ClockIdle ==
  /\ resident = <<>>
  /\ clock = <<>>
  /\ current_frame = 0
  /\ rcall = [op |-> "none", frame_id |-> nullptr, ok |-> TRUE, steps |-> 0]

\* No thread is inside a call and no latch is held.
ConcIdle ==
  /\ thr = <<>>
  /\ latch_ = nullptr
  /\ rwlatch = <<>>
  /\ unsaved = <<>>

LRUIdle ==
  /\ frames = <<>>
  /\ stamp = <<>>
  /\ now = 0
  /\ lcall = [op |-> "none", frame_id |-> nullptr, ok |-> TRUE]

Init ==
  /\ InstInit
  /\ CallInit
  /\ GhostIdle
  /\ ParIdle
  /\ ClockIdle
  /\ ConcIdle
  /\ LRUIdle

\* Page ids a caller can hold: those New has returned.
Allocated(m) ==
  {p \in PageIds : p < m.next_page_id_
                   /\ p % m.num_instances_ = m.instance_index_}

NewPage ==
  /\ bpm.next_page_id_ < MaxPageId
  /\ LET r == NewPgImp(bpm, disk)
     IN /\ bpm' = r.bpm
        /\ disk' = r.disk
        /\ call' = Call("New", r.ok)
  /\ UNCHANGED <<ghostVars, restVars>>

FetchPage ==
  /\ \E page_id \in Allocated(bpm) :
       /\ \A f \in Frames : bpm.pages_[f].page_id_ = page_id
                               => bpm.pages_[f].pin_count_ < MaxPin
       /\ LET r == FetchPgImp(bpm, disk, page_id)
          IN /\ bpm' = r.bpm
             /\ disk' = r.disk
             /\ call' = Call("Fetch", r.ok)
  /\ UNCHANGED <<ghostVars, restVars>>

UnpinPage ==
  /\ \E page_id \in Allocated(bpm), is_dirty \in BOOLEAN :
       LET r == UnpinPgImp(bpm, disk, page_id, is_dirty)
       IN /\ bpm' = r.bpm
          /\ disk' = r.disk
          /\ call' = Call("Unpin", r.ok)
  /\ UNCHANGED <<ghostVars, restVars>>

FlushPage ==
  /\ \E page_id \in Allocated(bpm) :
       LET r == FlushPgImp(bpm, disk, page_id)
       IN /\ bpm' = r.bpm
          /\ disk' = r.disk
          /\ call' = Call("Flush", r.ok)
  /\ UNCHANGED <<ghostVars, restVars>>

FlushAllPages ==
  /\ LET r == FlushAllPgsImp(bpm, disk)
     IN /\ bpm' = r.bpm
        /\ disk' = r.disk
        /\ call' = Call("FlushAll", TRUE)
  /\ UNCHANGED <<ghostVars, restVars>>

DeletePage ==
  /\ \E page_id \in Allocated(bpm) :
       LET r == DeletePgImp(bpm, disk, page_id)
       IN /\ bpm' = r.bpm
          /\ disk' = r.disk
          /\ call' = Call("Delete", r.ok)
  /\ UNCHANGED <<ghostVars, restVars>>

\* A caller holding a pin on frame f changes the page's bytes through the
\* Page handle.
WriteData ==
  /\ \E f \in Frames, v \in Data :
       /\ bpm.pages_[f].pin_count_ > 0
       /\ bpm.pages_[f].page_id_ \in PageIds
       /\ bpm' = [bpm EXCEPT !.pages_[f].data_ = v]
       /\ call' = Call("Write", TRUE)
  /\ UNCHANGED <<disk, ghostVars, restVars>>

\* Spec: every call of the instance, in any order, by one caller thread.
Next ==
  \/ NewPage
  \/ FetchPage
  \/ UnpinPage
  \/ FlushPage
  \/ FlushAllPages
  \/ DeletePage

Spec == Init /\ [][Next]_vars

\* SpecData: the same calls, and callers changing the bytes of pinned pages.
NextData ==
  \/ NewPage
  \/ FetchPage
  \/ UnpinPage
  \/ FlushPage
  \/ FlushAllPages
  \/ DeletePage
  \/ WriteData

SpecData == Init /\ [][NextData]_vars

\* SpecBalanced: New, Fetch and Unpin used as the Page handle asks: an Unpin
\* is made only by a caller holding a pin, and the Unpin that releases the last
\* pin of a page whose bytes were changed passes is_dirty = true.  `written`
\* is the content a caller last gave each page (a new page is zeroed);
\* `touched` marks the frames changed since their last dirty Unpin.
BalancedNew ==
  /\ bpm.next_page_id_ < MaxPageId
  /\ LET r == NewPgImp(bpm, disk)
     IN /\ bpm' = r.bpm
        /\ disk' = r.disk
        /\ call' = Call("New", r.ok)
        /\ written' = IF r.ok THEN [written EXCEPT ![r.page_id] = 0]
                              ELSE written
        /\ touched' = IF r.ok THEN [touched EXCEPT ![r.frame] = FALSE]
                              ELSE touched
  /\ UNCHANGED restVars

BalancedFetch ==
  /\ UNCHANGED restVars
  /\ \E page_id \in Allocated(bpm) :
    /\ \A f \in Frames : bpm.pages_[f].page_id_ = page_id
                            => bpm.pages_[f].pin_count_ < MaxPin
    /\ LET r == FetchPgImp(bpm, disk, page_id)
       IN /\ bpm' = r.bpm
          /\ disk' = r.disk
          /\ call' = Call("Fetch", r.ok)
          /\ touched' = IF r.ok /\ ~Resident(bpm, page_id)
                        THEN [touched EXCEPT ![r.frame] = FALSE]
                        ELSE touched
          /\ UNCHANGED written

BalancedWrite ==
  /\ UNCHANGED restVars
  /\ \E f \in Frames, v \in Data :
    /\ bpm.pages_[f].pin_count_ > 0
    /\ bpm.pages_[f].page_id_ \in PageIds
    /\ bpm' = [bpm EXCEPT !.pages_[f].data_ = v]
    /\ written' = [written EXCEPT ![bpm.pages_[f].page_id_] = v]
    /\ touched' = [touched EXCEPT ![f] = TRUE]
    /\ call' = Call("Write", TRUE)
    /\ UNCHANGED disk

BalancedUnpin ==
  /\ UNCHANGED restVars
  /\ \E page_id \in Allocated(bpm), is_dirty \in BOOLEAN :
    LET i == FindFrame(bpm, page_id)
        r == UnpinPgImp(bpm, disk, page_id, is_dirty)
    IN /\ i # nullptr
       /\ bpm.pages_[i].pin_count_ > 0
       /\ (touched[i] /\ bpm.pages_[i].pin_count_ = 1) => is_dirty
       /\ bpm' = r.bpm
       /\ disk' = r.disk
       /\ call' = Call("Unpin", r.ok)
       /\ touched' = IF is_dirty THEN [touched EXCEPT ![i] = FALSE]
                                 ELSE touched
       /\ UNCHANGED written

BalancedFlushAll ==
  LET r == FlushAllPgsImp(bpm, disk)
  IN /\ bpm' = r.bpm
     /\ disk' = r.disk
     /\ call' = Call("FlushAll", TRUE)
     /\ UNCHANGED <<written, touched, restVars>>

NextBalanced ==
  \/ BalancedNew
  \/ BalancedFetch
  \/ BalancedWrite
  \/ BalancedUnpin
  \/ BalancedFlushAll

SpecBalanced == Init /\ [][NextBalanced]_vars

\* ----------------------------- one instance, any page id as an argument
\* The callers pass the ids New has returned and INVALID_PAGE_ID.
AnyPageIds == Allocated(bpm) \cup {INVALID_PAGE_ID}

AnyFetchPage ==
  /\ \E page_id \in AnyPageIds :
       /\ \A f \in Frames : bpm.pages_[f].page_id_ = page_id
                               => bpm.pages_[f].pin_count_ < MaxPin
       /\ LET r == FetchPgImp(bpm, disk, page_id)
          IN /\ bpm' = r.bpm
             /\ disk' = r.disk
             /\ call' = Call("Fetch", r.ok)
  /\ UNCHANGED <<ghostVars, restVars>>

AnyUnpinPage ==
  /\ \E page_id \in AnyPageIds, is_dirty \in BOOLEAN :
       LET r == UnpinPgImp(bpm, disk, page_id, is_dirty)
       IN /\ bpm' = r.bpm
          /\ disk' = r.disk
          /\ call' = Call("Unpin", r.ok)
  /\ UNCHANGED <<ghostVars, restVars>>

AnyFlushPage ==
  /\ \E page_id \in AnyPageIds :
       LET r == FlushPgImp(bpm, disk, page_id)
       IN /\ bpm' = r.bpm
          /\ disk' = r.disk
          /\ call' = Call("Flush", r.ok)
  /\ UNCHANGED <<ghostVars, restVars>>

AnyDeletePage ==
  /\ \E page_id \in AnyPageIds :
       LET r == DeletePgImp(bpm, disk, page_id)
       IN /\ Len(r.bpm.free_list_) <= MaxFreeList
          /\ bpm' = r.bpm
          /\ disk' = r.disk
          /\ call' = Call("Delete", r.ok)
  /\ UNCHANGED <<ghostVars, restVars>>

NextAnyId ==
  \/ NewPage
  \/ AnyFetchPage
  \/ AnyUnpinPage
  \/ AnyFlushPage
  \/ FlushAllPages
  \/ AnyDeletePage

SpecAnyId == Init /\ [][NextAnyId]_vars

\* --------------------------------------------------- the parallel pool
InstIdle == InstInit

ParInit ==
  /\ bpInstances = ParallelBufferPoolManager(NumInstances, ParPoolSize)
  /\ starting_index = StartingIndexInit
  /\ served = nullptr
  /\ news = <<>>
  /\ disk = [p \in ParPageIds |-> 0]
  /\ bpm = BufferPoolManagerInstance(PoolSize, 1, 0)
  /\ CallInit
  /\ GhostIdle
  /\ ClockIdle
  /\ ConcIdle
  /\ LRUIdle

parIdleVars == <<bpm, written, touched, clockVars, concVars, lruVars>>

\* Page ids the callers of the parallel pool hold: those its New returned.
ParAllocated == {news[i][1] : i \in 1 .. Len(news)}

ParNewPage ==
  /\ LET r == ParallelNewPgImp(bpInstances, starting_index, disk)
     IN /\ r.ok => r.page_id < ParMaxPageId
        /\ bpInstances' = r.bpInstances
        /\ starting_index' = r.starting_index
        /\ disk' = r.disk
        /\ served' = r.served
        /\ news' = IF r.ok THEN Append(news, <<r.page_id, r.served>>) ELSE news
  /\ UNCHANGED <<call, parIdleVars>>

ParFetchPage ==
  /\ \E page_id \in ParAllocated :
       /\ \A k \in Instances : \A f \in DOMAIN bpInstances[k].pages_ :
            bpInstances[k].pages_[f].page_id_ = page_id
              => bpInstances[k].pages_[f].pin_count_ < MaxPin
       /\ LET r == ParallelFetchPgImp(bpInstances, starting_index, disk, page_id)
          IN /\ bpInstances' = r.bpInstances
             /\ disk' = r.disk
             /\ served' = r.served
  /\ UNCHANGED <<starting_index, news, call, parIdleVars>>

ParUnpinPage ==
  /\ \E page_id \in ParAllocated, is_dirty \in BOOLEAN :
       LET r == ParallelUnpinPgImp(bpInstances, starting_index, disk, page_id,
                                   is_dirty)
       IN /\ bpInstances' = r.bpInstances
          /\ disk' = r.disk
          /\ served' = r.served
  /\ UNCHANGED <<starting_index, news, call, parIdleVars>>

ParFlushPage ==
  /\ \E page_id \in ParAllocated :
       LET r == ParallelFlushPgImp(bpInstances, starting_index, disk, page_id)
       IN /\ bpInstances' = r.bpInstances
          /\ disk' = r.disk
          /\ served' = r.served
  /\ UNCHANGED <<starting_index, news, call, parIdleVars>>

ParDeletePage ==
  /\ \E page_id \in ParAllocated :
       LET r == ParallelDeletePgImp(bpInstances, starting_index, disk, page_id)
       IN /\ bpInstances' = r.bpInstances
          /\ disk' = r.disk
          /\ served' = r.served
  /\ UNCHANGED <<starting_index, news, call, parIdleVars>>

ParFlushAllPages ==
  /\ LET r == ParallelFlushAllPgsImp(bpInstances, disk)
     IN /\ bpInstances' = r.bpInstances
        /\ disk' = r.disk
        /\ served' = nullptr
  /\ UNCHANGED <<starting_index, news, call, parIdleVars>>

NextParallel ==
  \/ ParNewPage
  \/ ParFetchPage
  \/ ParUnpinPage
  \/ ParFlushPage
  \/ ParDeletePage
  \/ ParFlushAllPages

SpecParallel == ParInit /\ [][NextParallel]_vars

\* ------------------------------------- the parallel pool under New/Unpin
\* Callers only create and unpin pages, so that instances fill up and free
\* up again while page ids run further than in SpecParallel.
RoundRobinInit ==
  /\ bpInstances = ParallelBufferPoolManager(NumInstances, ParPoolSize)
  /\ starting_index = StartingIndexInit
  /\ served = nullptr
  /\ news = <<>>
  /\ disk = [p \in 0 .. (RoundRobinMaxPageId - 1) |-> 0]
  /\ bpm = BufferPoolManagerInstance(PoolSize, 1, 0)
  /\ CallInit
  /\ GhostIdle
  /\ ClockIdle
  /\ ConcIdle
  /\ LRUIdle

RoundRobinNewPage ==
  /\ LET r == ParallelNewPgImp(bpInstances, starting_index, disk)
     IN /\ r.ok => r.page_id < RoundRobinMaxPageId
        /\ bpInstances' = r.bpInstances
        /\ starting_index' = r.starting_index
        /\ disk' = r.disk
        /\ served' = r.served
        /\ news' = IF r.ok THEN Append(news, <<r.page_id, r.served>>) ELSE news
  /\ UNCHANGED <<call, parIdleVars>>

NextRoundRobin ==
  \/ RoundRobinNewPage
  \/ ParUnpinPage

SpecRoundRobin == RoundRobinInit /\ [][NextRoundRobin]_vars

\* ------------------------------------------------ the stand-alone ClockReplacer
ClockInit ==
  /\ resident = [f \in ClockFrames |-> FALSE]
  /\ clock = [f \in ClockFrames |-> FALSE]
  /\ current_frame = ClockHandInit
  /\ rcall = [op |-> "none", frame_id |-> nullptr, ok |-> TRUE, steps |-> 0]
  /\ InstIdle
  /\ CallInit
  /\ GhostIdle
  /\ ParIdle
  /\ ConcIdle
  /\ LRUIdle

clockIdleVars == <<bpm, disk, call, written, touched, parVars, concVars,
                   lruVars>>

ClockVictimCall ==
  /\ LET r == ClockVictim(resident, clock, current_frame)
     IN /\ resident' = r.resident
        /\ clock' = r.clock
        /\ current_frame' = r.current_frame
        /\ rcall' = [op |-> "Victim", frame_id |-> r.frame_id, ok |-> r.ok,
                     steps |-> r.steps]
  /\ UNCHANGED clockIdleVars

ClockPinCall ==
  /\ \E f \in ClockFrames :
       /\ resident' = ClockPin(resident, f)
       /\ rcall' = [op |-> "Pin", frame_id |-> f, ok |-> TRUE, steps |-> 0]
  /\ UNCHANGED <<clock, current_frame, clockIdleVars>>

ClockUnpinCall ==
  /\ \E f \in ClockFrames :
       LET r == ClockUnpin(resident, clock, f)
       IN /\ resident' = r.resident
          /\ clock' = r.clock
          /\ rcall' = [op |-> "Unpin", frame_id |-> f, ok |-> TRUE, steps |-> 0]
  /\ UNCHANGED <<current_frame, clockIdleVars>>

NextClock ==
  \/ ClockVictimCall
  \/ ClockPinCall
  \/ ClockUnpinCall

SpecClock == ClockInit /\ [][NextClock]_vars

\* -------------------------------------------------- the stand-alone LRUReplacer
LRUInit ==
  /\ frames = <<>>
  /\ stamp = [f \in LRUFrames |-> 0]
  /\ now = 0
  /\ lcall = [op |-> "none", frame_id |-> nullptr, ok |-> TRUE]
  /\ InstIdle
  /\ CallInit
  /\ GhostIdle
  /\ ParIdle
  /\ ClockIdle
  /\ ConcIdle

lruIdleVars == <<bpm, disk, call, written, touched, parVars, clockVars,
                 concVars>>

LRUVictimCall ==
  /\ LET r == LRUVictim(frames)
     IN /\ frames' = r.frames
        /\ stamp' = IF r.ok THEN [stamp EXCEPT ![r.frame_id] = 0] ELSE stamp
        /\ lcall' = [op |-> "Victim", frame_id |-> r.frame_id, ok |-> r.ok]
  /\ UNCHANGED <<now, lruIdleVars>>

LRUPinCall ==
  /\ \E f \in LRUFrames :
       /\ frames' = LRUPin(frames, f)
       /\ stamp' = [stamp EXCEPT ![f] = 0]
       /\ lcall' = [op |-> "Pin", frame_id |-> f, ok |-> stamp[f] > 0]
  /\ UNCHANGED <<now, lruIdleVars>>

LRUUnpinCall ==
  /\ now < LRUMaxUnpins
  /\ \E f \in LRUFrames :
       /\ frames' = LRUUnpin(frames, f)
       /\ stamp' = [stamp EXCEPT ![f] = now + 1]
       /\ lcall' = [op |-> "Unpin", frame_id |-> f, ok |-> stamp[f] > 0]
  /\ now' = now + 1
  /\ UNCHANGED lruIdleVars

NextLRU ==
  \/ LRUVictimCall
  \/ LRUPinCall
  \/ LRUUnpinCall

SpecLRU == LRUInit /\ [][NextLRU]_vars

\* ------------------------------------------ one instance, several threads
\* Threads call New, Fetch and Unpin on one instance.  A step of a thread
\* starts where the code acquires a latch, or goes on after releasing one
\* with lines of the call still to run, and ends at the next acquisition or
\* release (a release followed only by the return, or by the next round's
\* acquisition, ends the step it is in).  A thread waits exactly where
\* lock() or WLatch() would block.
ThreadIdle ==
  [pc |-> "idle", op |-> "none", page_id |-> INVALID_PAGE_ID,
   is_dirty |-> FALSE, i |-> 0, id |-> nullptr, data |-> 0]

ConcInit ==
  /\ InstInit
  /\ thr = [t \in Threads |-> ThreadIdle]
  /\ latch_ = nullptr
  /\ rwlatch = [f \in Frames |-> nullptr]
  /\ unsaved = [f \in Frames |-> FALSE]
  /\ CallInit
  /\ GhostIdle
  /\ ParIdle
  /\ ClockIdle
  /\ LRUIdle

concIdleVars == <<call, written, touched, parVars, clockVars, lruVars>>

\* News that have been called and have not yet reached AllocatePage.
PendingNews ==
  Cardinality({t \in Threads : thr[t].op = "New"
                               /\ thr[t].pc \in {"lock", "victim_latch",
                                                 "victim_unlock"}})

Return(t) == [thr EXCEPT ![t] = ThreadIdle]

\* Page ids the callers hold: those a New has already returned.
ConcAllocated ==
  {p \in Allocated(bpm) :
     \A t \in Threads : ~(thr[t].op = "New" /\ thr[t].page_id = p)}

\* A thread enters NewPgImp and is about to take latch_.
CallNew(t) ==
  /\ thr[t].pc = "idle"
  /\ bpm.next_page_id_ + PendingNews < MaxPageId
  /\ thr' = [thr EXCEPT ![t] = [ThreadIdle EXCEPT !.pc = "lock", !.op = "New"]]
  /\ UNCHANGED <<bpm, disk, latch_, rwlatch, unsaved, concIdleVars>>

\* A thread enters FetchPgImp(page_id) and is about to scan frame 0.
CallFetch(t) ==
  /\ thr[t].pc = "idle"
  /\ \E page_id \in ConcAllocated :
       /\ \A f \in Frames : bpm.pages_[f].page_id_ = page_id
                              => bpm.pages_[f].pin_count_ < MaxPin
       /\ thr' = [thr EXCEPT ![t] = [ThreadIdle EXCEPT !.pc = "scan",
                                        !.op = "Fetch", !.page_id = page_id]]
  /\ UNCHANGED <<bpm, disk, latch_, rwlatch, unsaved, concIdleVars>>

\* A thread enters UnpinPgImp(page_id, is_dirty) and is about to scan frame 0.
CallUnpin(t) ==
  /\ thr[t].pc = "idle"
  /\ \E page_id \in ConcAllocated, is_dirty \in BOOLEAN :
       thr' = [thr EXCEPT ![t] = [ThreadIdle EXCEPT !.pc = "scan",
                                     !.op = "Unpin", !.page_id = page_id,
                                     !.is_dirty = is_dirty]]
  /\ UNCHANGED <<bpm, disk, latch_, rwlatch, unsaved, concIdleVars>>

\* One round of the scan loop of FetchPgImp: WLatch, compare, and either
\* WUnlatch and move on, or keep the latch and go for latch_.
FetchScan(t) ==
  LET s == thr[t]
      i == s.i
  IN /\ s.pc = "scan"
     /\ s.op = "Fetch"
     /\ rwlatch[i] = nullptr
     /\ IF bpm.pages_[i].page_id_ = s.page_id
        THEN /\ rwlatch' = [rwlatch EXCEPT ![i] = t]
             /\ thr' = [thr EXCEPT ![t].pc = "hit"]
        ELSE /\ rwlatch' = rwlatch
             /\ thr' = IF i + 1 < bpm.pool_size_
                       THEN [thr EXCEPT ![t].i = i + 1]
                       ELSE [thr EXCEPT ![t].pc = "lock"]
     /\ UNCHANGED <<bpm, disk, latch_, unsaved, concIdleVars>>

\* The hit of FetchPgImp under latch_: lock, replacer Pin, unlock.  The
\* thread still holds the page latch.
FetchHit(t) ==
  LET s == thr[t]
      i == s.i
  IN /\ s.pc = "hit"
     /\ latch_ = nullptr
     /\ bpm' = [bpm EXCEPT !.replacer_ = LRUPin(bpm.replacer_, i)]
     /\ thr' = [thr EXCEPT ![t].pc = "hit_pin"]
     /\ UNCHANGED <<disk, latch_, rwlatch, unsaved, concIdleVars>>

\* The rest of the hit, under the page latch only: pin_count + 1, WUnlatch,
\* return.
FetchPin(t) ==
  LET s == thr[t]
      i == s.i
  IN /\ s.pc = "hit_pin"
     /\ bpm' = [bpm EXCEPT !.pages_[i].pin_count_ =
                              bpm.pages_[i].pin_count_ + 1]
     /\ rwlatch' = [rwlatch EXCEPT ![i] = nullptr]
     /\ thr' = Return(t)
     /\ UNCHANGED <<disk, latch_, unsaved, concIdleVars>>

\* One round of the scan loop of UnpinPgImp.  On a match with a positive
\* pin_count the count and the dirty bit are updated under the page latch;
\* if the count reached 0 the thread keeps that latch and goes for latch_.
UnpinScan(t) ==
  LET s == thr[t]
      i == s.i
      pg == bpm.pages_[i]
  IN /\ s.pc = "scan"
     /\ s.op = "Unpin"
     /\ rwlatch[i] = nullptr
     /\ IF pg.page_id_ = s.page_id
        THEN IF pg.pin_count_ <= 0
             THEN /\ thr' = Return(t)
                  /\ UNCHANGED <<bpm, rwlatch, unsaved>>
             ELSE /\ bpm' = [bpm EXCEPT
                               !.pages_[i].pin_count_ = pg.pin_count_ - 1,
                               !.pages_[i].is_dirty_ =
                                  pg.is_dirty_ \/ s.is_dirty]
                  /\ unsaved' = [unsaved EXCEPT ![i] = unsaved[i] \/ s.is_dirty]
                  /\ IF pg.pin_count_ - 1 = 0
                     THEN /\ rwlatch' = [rwlatch EXCEPT ![i] = t]
                          /\ thr' = [thr EXCEPT ![t].pc = "unpin_lock"]
                     ELSE /\ rwlatch' = rwlatch
                          /\ thr' = Return(t)
        ELSE /\ thr' = IF i + 1 < bpm.pool_size_
                       THEN [thr EXCEPT ![t].i = i + 1]
                       ELSE Return(t)
             /\ UNCHANGED <<bpm, rwlatch, unsaved>>
     /\ UNCHANGED <<disk, latch_, concIdleVars>>

\* UnpinPgImp under latch_: lock, replacer Unpin, unlock.  The thread still
\* holds the page latch.
UnpinLock(t) ==
  LET s == thr[t]
  IN /\ s.pc = "unpin_lock"
     /\ latch_ = nullptr
     /\ bpm' = [bpm EXCEPT !.replacer_ = LRUUnpin(bpm.replacer_, s.i)]
     /\ thr' = [thr EXCEPT ![t].pc = "unpin_unlatch"]
     /\ UNCHANGED <<disk, latch_, rwlatch, unsaved, concIdleVars>>

\* The end of UnpinPgImp after latch_.unlock(): WUnlatch, return.
UnpinUnlatch(t) ==
  LET s == thr[t]
  IN /\ s.pc = "unpin_unlatch"
     /\ rwlatch' = [rwlatch EXCEPT ![s.i] = nullptr]
     /\ thr' = Return(t)
     /\ UNCHANGED <<bpm, disk, latch_, unsaved, concIdleVars>>

\* NewPgImp and the miss of FetchPgImp from latch_.lock() on.  With a free
\* frame the section runs to latch_.unlock() (New allocates its id and goes
\* for the frame's page latch, Fetch goes on to its ReadPage, which it makes
\* holding no latch); with a victim the thread keeps latch_ and goes for the
\* victim's page latch; with neither it returns.
Lock(t) ==
  LET s == thr[t]
  IN /\ s.pc = "lock"
     /\ latch_ = nullptr
     /\ IF Len(bpm.free_list_) > 0
        THEN LET id == Head(bpm.free_list_)
                 m1 == [bpm EXCEPT !.free_list_ = Tail(bpm.free_list_)]
                 a == AllocatePage(m1)
             IN /\ bpm' = IF s.op = "New" THEN a.bpm ELSE m1
                /\ thr' = [thr EXCEPT
                             ![t].pc = IF s.op = "New" THEN "install"
                                       ELSE "read",
                             ![t].id = id,
                             ![t].page_id = IF s.op = "New" THEN a.page_id
                                            ELSE s.page_id]
                /\ latch_' = latch_
        ELSE LET v == LRUVictim(bpm.replacer_)
             IN IF ~v.ok
                THEN /\ thr' = Return(t)
                     /\ UNCHANGED <<bpm, latch_>>
                ELSE /\ bpm' = [bpm EXCEPT !.replacer_ = v.frames]
                     /\ latch_' = t
                     /\ thr' = [thr EXCEPT ![t].pc = "victim_latch",
                                           ![t].id = v.frame_id]
     /\ UNCHANGED <<disk, rwlatch, unsaved, concIdleVars>>

\* The victim's page-latch section, with latch_ held throughout: WLatch,
\* write a dirty page back (New then clears the dirty bit, Fetch sets it),
\* WUnlatch.  The thread still holds latch_.
VictimLatch(t) ==
  LET s == thr[t]
      id == s.id
      pg == bpm.pages_[id]
  IN /\ s.pc = "victim_latch"
     /\ rwlatch[id] = nullptr
     /\ disk' = IF pg.is_dirty_ THEN WritePage(disk, pg.page_id_, pg.data_)
                ELSE disk
     /\ bpm' = IF pg.is_dirty_
               THEN [bpm EXCEPT !.pages_[id].is_dirty_ = (s.op = "Fetch")]
               ELSE bpm
     /\ unsaved' = IF pg.is_dirty_ THEN [unsaved EXCEPT ![id] = FALSE]
                   ELSE unsaved
     /\ thr' = [thr EXCEPT ![t].pc = "victim_unlock"]
     /\ UNCHANGED <<latch_, rwlatch, concIdleVars>>

\* After the victim's WUnlatch: AllocatePage in New, then latch_.unlock().
\* New then goes for the frame's page latch, Fetch goes on to its ReadPage.
VictimUnlock(t) ==
  LET s == thr[t]
      a == AllocatePage(bpm)
  IN /\ s.pc = "victim_unlock"
     /\ bpm' = IF s.op = "New" THEN a.bpm ELSE bpm
     /\ latch_' = nullptr
     /\ thr' = [thr EXCEPT
                  ![t].pc = IF s.op = "New" THEN "install" ELSE "read",
                  ![t].page_id = IF s.op = "New" THEN a.page_id ELSE s.page_id]
     /\ UNCHANGED <<disk, rwlatch, unsaved, concIdleVars>>

\* The ReadPage of FetchPgImp, made after latch_.unlock() and before the
\* WLatch of the install, with no latch held: the thread reads what the disk
\* holds for the page at that moment.
FetchRead(t) ==
  LET s == thr[t]
  IN /\ s.pc = "read"
     /\ s.op = "Fetch"
     /\ thr' = [thr EXCEPT ![t].pc = "install",
                           ![t].data = ReadPage(disk, s.page_id)]
     /\ UNCHANGED <<bpm, disk, latch_, rwlatch, unsaved, concIdleVars>>

\* The last section of NewPgImp and FetchPgImp: WLatch, SetPageId,
\* SetPinCount(1), SetDirty, the data, WUnlatch, return.
Install(t) ==
  LET s == thr[t]
  IN /\ s.pc = "install"
     /\ rwlatch[s.id] = nullptr
     /\ bpm' = [bpm EXCEPT !.pages_[s.id] =
                  [page_id_ |-> s.page_id, pin_count_ |-> 1,
                   is_dirty_ |-> (s.op = "New"), data_ |-> s.data]]
     /\ unsaved' = [unsaved EXCEPT ![s.id] = FALSE]
     /\ thr' = Return(t)
     /\ UNCHANGED <<disk, latch_, rwlatch, concIdleVars>>

NextConc ==
  \E t \in Threads :
    \/ CallNew(t)
    \/ CallFetch(t)
    \/ CallUnpin(t)
    \/ FetchScan(t)
    \/ FetchHit(t)
    \/ FetchPin(t)
    \/ UnpinScan(t)
    \/ UnpinLock(t)
    \/ UnpinUnlatch(t)
    \/ Lock(t)
    \/ VictimLatch(t)
    \/ VictimUnlock(t)
    \/ FetchRead(t)
    \/ Install(t)

SpecConc == ConcInit /\ [][NextConc]_vars

\* ------------------- one instance, several threads, Delete and Flush too
\* A thread enters DeletePgImp(page_id) and is about to scan frame 0.
CallDelete(t) ==
  /\ thr[t].pc = "idle"
  /\ \E page_id \in ConcAllocated :
       thr' = [thr EXCEPT ![t] = [ThreadIdle EXCEPT !.pc = "scan",
                                     !.op = "Delete", !.page_id = page_id]]
  /\ UNCHANGED <<bpm, disk, latch_, rwlatch, unsaved, concIdleVars>>

\* A thread enters FlushPgImp(page_id) and is about to scan frame 0.
CallFlush(t) ==
  /\ thr[t].pc = "idle"
  /\ \E page_id \in ConcAllocated :
       thr' = [thr EXCEPT ![t] = [ThreadIdle EXCEPT !.pc = "scan",
                                     !.op = "Flush", !.page_id = page_id]]
  /\ UNCHANGED <<bpm, disk, latch_, rwlatch, unsaved, concIdleVars>>

\* One round of the scan loop of DeletePgImp: on a match with pin_count 0
\* the thread keeps the page latch and goes for latch_.
DeleteScan(t) ==
  LET s == thr[t]
      i == s.i
  IN /\ s.pc = "scan"
     /\ s.op = "Delete"
     /\ rwlatch[i] = nullptr
     /\ IF bpm.pages_[i].page_id_ = s.page_id
        THEN IF bpm.pages_[i].pin_count_ # 0
             THEN /\ thr' = Return(t)
                  /\ rwlatch' = rwlatch
             ELSE /\ thr' = [thr EXCEPT ![t].pc = "delete_lock"]
                  /\ rwlatch' = [rwlatch EXCEPT ![i] = t]
        ELSE /\ rwlatch' = rwlatch
             /\ thr' = IF i + 1 < bpm.pool_size_
                       THEN [thr EXCEPT ![t].i = i + 1]
                       ELSE Return(t)
     /\ UNCHANGED <<bpm, disk, latch_, unsaved, concIdleVars>>

\* DeletePgImp under latch_: lock, push_back on the free list, unlock.  The
\* thread still holds the page latch and the frame still holds the page.
DeleteLock(t) ==
  LET s == thr[t]
      i == s.i
  IN /\ s.pc = "delete_lock"
     /\ latch_ = nullptr
     /\ bpm' = [bpm EXCEPT !.free_list_ = Append(bpm.free_list_, i)]
     /\ thr' = [thr EXCEPT ![t].pc = "delete_reset"]
     /\ UNCHANGED <<disk, latch_, rwlatch, unsaved, concIdleVars>>

\* The end of DeletePgImp after latch_.unlock(): reset of the page, WUnlatch,
\* return.
DeleteReset(t) ==
  LET s == thr[t]
      i == s.i
  IN /\ s.pc = "delete_reset"
     /\ bpm' = [bpm EXCEPT !.pages_[i] = Page]
     /\ unsaved' = [unsaved EXCEPT ![i] = FALSE]
     /\ rwlatch' = [rwlatch EXCEPT ![i] = nullptr]
     /\ thr' = Return(t)
     /\ UNCHANGED <<disk, latch_, concIdleVars>>

\* One round of the scan loop of FlushPgImp, all under the page latch.
FlushScan(t) ==
  LET s == thr[t]
      i == s.i
      pg == bpm.pages_[i]
  IN /\ s.pc = "scan"
     /\ s.op = "Flush"
     /\ rwlatch[i] = nullptr
     /\ IF pg.page_id_ = s.page_id
        THEN /\ thr' = Return(t)
             /\ IF pg.is_dirty_
                THEN /\ disk' = WritePage(disk, pg.page_id_, pg.data_)
                     /\ bpm' = [bpm EXCEPT !.pages_[i].is_dirty_ = FALSE]
                     /\ unsaved' = [unsaved EXCEPT ![i] = FALSE]
                ELSE UNCHANGED <<disk, bpm, unsaved>>
        ELSE /\ thr' = IF i + 1 < bpm.pool_size_
                       THEN [thr EXCEPT ![t].i = i + 1]
                       ELSE Return(t)
             /\ UNCHANGED <<disk, bpm, unsaved>>
     /\ UNCHANGED <<latch_, rwlatch, concIdleVars>>

\* A thread enters FlushAllPgsImp and is about to visit frame 0.
CallFlushAll(t) ==
  /\ thr[t].pc = "idle"
  /\ thr' = [thr EXCEPT ![t] = [ThreadIdle EXCEPT !.pc = "scan",
                                   !.op = "FlushAll"]]
  /\ UNCHANGED <<bpm, disk, latch_, rwlatch, unsaved, concIdleVars>>

\* One round of the loop of FlushAllPgsImp, all under the page latch: a dirty
\* frame is written under the page id it holds and marked clean.
FlushAllScan(t) ==
  LET s == thr[t]
      i == s.i
      pg == bpm.pages_[i]
  IN /\ s.pc = "scan"
     /\ s.op = "FlushAll"
     /\ rwlatch[i] = nullptr
     /\ IF pg.is_dirty_
        THEN /\ disk' = WritePage(disk, pg.page_id_, pg.data_)
             /\ bpm' = [bpm EXCEPT !.pages_[i].is_dirty_ = FALSE]
             /\ unsaved' = [unsaved EXCEPT ![i] = FALSE]
        ELSE UNCHANGED <<disk, bpm, unsaved>>
     /\ thr' = IF i + 1 < bpm.pool_size_
               THEN [thr EXCEPT ![t].i = i + 1]
               ELSE Return(t)
     /\ UNCHANGED <<latch_, rwlatch, concIdleVars>>

\* A thread enters UnpinPgImp(page_id, false).  With all five calls in play
\* the callers leave the dirty bits to New and Flush.
CallUnpinClean(t) ==
  /\ thr[t].pc = "idle"
  /\ \E page_id \in ConcAllocated :
       thr' = [thr EXCEPT ![t] = [ThreadIdle EXCEPT !.pc = "scan",
                                     !.op = "Unpin", !.page_id = page_id]]
  /\ UNCHANGED <<bpm, disk, latch_, rwlatch, unsaved, concIdleVars>>

NextConcAll ==
  \E t \in Threads :
    \/ CallNew(t)
    \/ CallFetch(t)
    \/ CallUnpinClean(t)
    \/ CallDelete(t)
    \/ CallFlush(t)
    \/ CallFlushAll(t)
    \/ FetchScan(t)
    \/ FetchHit(t)
    \/ FetchPin(t)
    \/ UnpinScan(t)
    \/ UnpinLock(t)
    \/ UnpinUnlatch(t)
    \/ DeleteScan(t)
    \/ DeleteLock(t)
    \/ DeleteReset(t)
    \/ FlushScan(t)
    \/ FlushAllScan(t)
    \/ Lock(t)
    \/ VictimLatch(t)
    \/ VictimUnlock(t)
    \/ FetchRead(t)
    \/ Install(t)

SpecConcAll == ConcInit /\ [][NextConcAll]_vars

\* ------------------------------------------------------------------ claims
\* C1: a frame whose pin_count is > 0 keeps its page id under every call, and
\* a New or a Fetch neither lowers its pin_count nor changes its data.
C1_PinnedFrameNeverReused ==
  [][\A f \in Frames :
       bpm.pages_[f].pin_count_ > 0 =>
         /\ bpm'.pages_[f].page_id_ = bpm.pages_[f].page_id_
         /\ call'.op \in {"New", "Fetch"} =>
              /\ bpm'.pages_[f].pin_count_ >= bpm.pages_[f].pin_count_
              /\ bpm'.pages_[f].data_ = bpm.pages_[f].data_]_vars

\* The state C1 fails from: a pinned frame that the replacer still tracks.
C1_Witness_PinnedInReplacer ==
  \E f \in Frames :
    /\ bpm.pages_[f].pin_count_ > 0
    /\ InSeq(bpm.replacer_, f)
    /\ bpm.free_list_ = <<>>

\* C2: under any interleaving of Fetch, New and Unpin, a frame is bound to
\* another page id only when no content marked dirty by Unpin(..., true) is
\* waiting in it for a disk write.
C2_NoDirtyContentDiscarded ==
  [][\A f \in Frames :
       bpm'.pages_[f].page_id_ # bpm.pages_[f].page_id_ => ~unsaved[f]]_vars

\* A thread is about to install a page in a frame whose content was marked
\* dirty by an Unpin after that thread had chosen the frame.
C2_Witness_InstallOverUnsaved ==
  \E t \in Threads :
    /\ thr # <<>>
    /\ thr[t].pc = "install"
    /\ unsaved[thr[t].id]
    /\ bpm.pages_[thr[t].id].page_id_ # thr[t].page_id

\* C3: under the balanced use of New, Fetch and Unpin, a FlushAll made when
\* every pin has been released leaves on disk, for every page, the content a
\* caller last gave it; and a successful Fetch returns that content.
C3_LastWrittenContentSurvives ==
  /\ (\A f \in Frames : bpm.pages_[f].pin_count_ = 0)
       => \A p \in PageIds : FlushAllPgsImp(bpm, disk).disk[p] = written[p]
  /\ \A p \in Allocated(bpm) :
       LET r == FetchPgImp(bpm, disk, p)
       IN r.ok => /\ r.bpm.pages_[r.frame].page_id_ = p
                  /\ r.bpm.pages_[r.frame].data_ = written[p]

\* Every pin is released, a FlushAll has just written the bytes a caller
\* gave to a page that is still resident, and another page with caller-given
\* bytes was written back by an eviction and is no longer resident.
C3_Witness_FlushedAfterEviction ==
  /\ call.op = "FlushAll"
  /\ \A f \in Frames : bpm.pages_[f].pin_count_ = 0
  /\ \E p, q \in PageIds :
       /\ written[p] # 0 /\ disk[p] = written[p] /\ ~Resident(bpm, p)
       /\ written[q] # 0 /\ disk[q] = written[q] /\ Resident(bpm, q)

\* C4: with every frame pinned, New and a Fetch of a non-resident page
\* return none and change nothing.
C4_AllPinnedFailsCleanly ==
  AllPinned(bpm) =>
    /\ LET r == NewPgImp(bpm, disk)
       IN ~r.ok /\ r.bpm = bpm /\ r.disk = disk
    /\ \A x \in PageIds :
         ~Resident(bpm, x) =>
           LET r == FetchPgImp(bpm, disk, x)
           IN ~r.ok /\ r.bpm = bpm /\ r.disk = disk

\* The case the claim is about and the code gets right: every frame pinned,
\* nothing in the replacer, and a New or Fetch has just returned none.
C4_Witness_AllPinnedRefused ==
  /\ AllPinned(bpm)
  /\ bpm.replacer_ = <<>>
  /\ call.op \in {"New", "Fetch"}
  /\ ~call.ok

\* C5: Unpin fails without effect on a non-resident page and on a page with
\* pin_count 0; otherwise it takes exactly one pin off, and the frame is in
\* the replacer afterwards iff no pin is left.  No pin_count is negative.
C5_UnpinContract ==
  /\ \A f \in Frames : bpm.pages_[f].pin_count_ >= 0
  /\ \A x \in PageIds, is_dirty \in BOOLEAN :
       LET i == FindFrame(bpm, x)
           r == UnpinPgImp(bpm, disk, x, is_dirty)
       IN IF i = nullptr \/ bpm.pages_[i].pin_count_ = 0
          THEN ~r.ok /\ r.bpm = bpm /\ r.disk = disk
          ELSE /\ r.ok
               /\ r.bpm.pages_[i].pin_count_ = bpm.pages_[i].pin_count_ - 1
               /\ r.bpm.pages_[i].pin_count_ >= 0
               /\ InSeq(r.bpm.replacer_, i) <=> r.bpm.pages_[i].pin_count_ = 0

\* A double unpin has just been refused.
C5_Witness_DoubleUnpin ==
  /\ call.op = "Unpin"
  /\ ~call.ok
  /\ \A x \in Allocated(bpm) :
       Resident(bpm, x) /\ bpm.pages_[FindFrame(bpm, x)].pin_count_ = 0

\* C6: Delete(x) fails, without effect, exactly when x is resident and
\* pinned; otherwise it succeeds, x is not resident afterwards, the frame
\* it held is reset and on the free list, and a second Delete(x) succeeds
\* and changes nothing.
C6_DeleteContract ==
  \A x \in PageIds :
    LET i == FindFrame(bpm, x)
        r == DeletePgImp(bpm, disk, x)
        r2 == DeletePgImp(r.bpm, r.disk, x)
    IN /\ ~r.ok <=> (i # nullptr /\ bpm.pages_[i].pin_count_ > 0)
       /\ ~r.ok => (r.bpm = bpm /\ r.disk = disk)
       /\ r.ok =>
            /\ ~Resident(r.bpm, x)
            /\ i # nullptr =>
                 /\ r.bpm.pages_[i].page_id_ = INVALID_PAGE_ID
                 /\ ~r.bpm.pages_[i].is_dirty_
                 /\ r.bpm.pages_[i].pin_count_ = 0
                 /\ InSeq(r.bpm.free_list_, i)
            /\ r2.ok /\ r2.bpm = r.bpm /\ r2.disk = r.disk

\* An unpinned resident page has just been deleted: its frame is the last
\* of the free list (and is still tracked by the replacer).
C6_Witness_Deleted ==
  /\ call.op = "Delete"
  /\ call.ok
  /\ Len(bpm.free_list_) > 0
  /\ bpm.pages_[bpm.free_list_[Len(bpm.free_list_)]].page_id_ = INVALID_PAGE_ID
  /\ InSeq(bpm.replacer_, bpm.free_list_[Len(bpm.free_list_)])

\* C7: Flush(x) succeeds iff x is resident; a dirty page is written once,
\* with its data, and becomes clean; a clean page is not written, so a
\* second Flush writes nothing; pins, page ids, free list and replacer stay.
C7_FlushContract ==
  \A x \in PageIds :
    LET i == FindFrame(bpm, x)
        r == FlushPgImp(bpm, disk, x)
        r2 == FlushPgImp(r.bpm, r.disk, x)
    IN /\ r.ok <=> i # nullptr
       /\ (i # nullptr /\ bpm.pages_[i].is_dirty_) =>
            /\ r.writes = <<<<x, bpm.pages_[i].data_>>>>
            /\ r.disk = [disk EXCEPT ![x] = bpm.pages_[i].data_]
            /\ ~r.bpm.pages_[i].is_dirty_
       /\ (i # nullptr /\ ~bpm.pages_[i].is_dirty_) =>
            (r.writes = <<>> /\ r.disk = disk)
       /\ i = nullptr => (r.writes = <<>> /\ r.disk = disk)
       /\ r2.ok = r.ok /\ r2.writes = <<>> /\ r2.bpm = r.bpm /\ r2.disk = r.disk
       /\ r.bpm.free_list_ = bpm.free_list_
       /\ r.bpm.replacer_ = bpm.replacer_
       /\ r.bpm.next_page_id_ = bpm.next_page_id_
       /\ \A f \in Frames :
            /\ r.bpm.pages_[f].pin_count_ = bpm.pages_[f].pin_count_
            /\ r.bpm.pages_[f].page_id_ = bpm.pages_[f].page_id_
            /\ r.bpm.pages_[f].data_ = bpm.pages_[f].data_

\* A pinned dirty page holding caller-written bytes has just been flushed.
C7_Witness_FlushedPinnedDirty ==
  /\ call.op = "Flush"
  /\ call.ok
  /\ \A i \in Frames :
       /\ bpm.pages_[i].page_id_ \in PageIds
       /\ bpm.pages_[i].pin_count_ > 0
       /\ ~bpm.pages_[i].is_dirty_
       /\ bpm.pages_[i].data_ # 0
       /\ disk[bpm.pages_[i].page_id_] = bpm.pages_[i].data_

\* C8: every id New returned came from the instance with index id mod N; the
\* ids of instance k are k, k+N, k+2N, ... in that order, none twice; and a
\* Fetch, Unpin, Flush or Delete of such an id goes to instance k alone.
C8_ShardingAndRouting ==
  /\ \A i \in 1 .. Len(news) :
       LET id == news[i][1]
           k == news[i][2]
           earlier == Cardinality({j \in 1 .. (i - 1) : news[j][2] = k})
       IN /\ id % NumInstances = k
          /\ id = k + earlier * NumInstances
          /\ \A j \in 1 .. Len(news) : news[j][1] = id => j = i
  /\ \A i \in 1 .. Len(news) :
       LET id == news[i][1]
           k == news[i][2]
           others(r) == \A j \in Instances \ {k} :
                          r.bpInstances[j] = bpInstances[j]
           rf == ParallelFetchPgImp(bpInstances, starting_index, disk, id)
           ru == ParallelUnpinPgImp(bpInstances, starting_index, disk, id, TRUE)
           rl == ParallelFlushPgImp(bpInstances, starting_index, disk, id)
           rd == ParallelDeletePgImp(bpInstances, starting_index, disk, id)
       IN /\ rf.served = k /\ others(rf)
          /\ rf.bpInstances[k] = FetchPgImp(bpInstances[k], disk, id).bpm
          /\ ru.served = k /\ others(ru)
          /\ ru.bpInstances[k] = UnpinPgImp(bpInstances[k], disk, id, TRUE).bpm
          /\ rl.served = k /\ others(rl)
          /\ rl.bpInstances[k] = FlushPgImp(bpInstances[k], disk, id).bpm
          /\ rd.served = k /\ others(rd)
          /\ rd.bpInstances[k] = DeletePgImp(bpInstances[k], disk, id).bpm

\* Both instances have returned two ids each, the last call went to
\* instance 1, and a page of instance 1 has been fetched again there.
C8_Witness_TwoIdsEach ==
  /\ \A k \in Instances :
       Cardinality({i \in 1 .. Len(news) : news[i][2] = k}) >= 2
  /\ served = 1
  /\ \E f \in DOMAIN bpInstances[1].pages_ :
       /\ bpInstances[1].pages_[f].pin_count_ = 2
       /\ bpInstances[1].pages_[f].page_id_ % NumInstances = 1

\* C9: New asks the instances in the order (starting_index + i) mod N and
\* returns the page of the first whose New succeeds; it fails iff all fail;
\* starting_index grows by one on success and stays on failure; while every
\* instance has a free frame, consecutive News go to consecutive instances.
C9_RoundRobinNew ==
  LET r == ParallelNewPgImp(bpInstances, starting_index, disk)
      own(k) == NewPgImp(bpInstances[k], disk)
      order(i) == (starting_index + i) % NumInstances
      allFree(insts) == \A k \in Instances : Len(insts[k].free_list_) > 0
      r2 == ParallelNewPgImp(r.bpInstances, r.starting_index, r.disk)
  IN /\ r.ok <=> \E k \in Instances : own(k).ok
     /\ r.ok =>
          /\ \E i \in 0 .. (NumInstances - 1) :
               /\ r.served = order(i)
               /\ own(order(i)).ok
               /\ \A j \in 0 .. (i - 1) : ~own(order(j)).ok
          /\ r.page_id = own(r.served).page_id
          /\ r.bpInstances = [bpInstances EXCEPT ![r.served] = own(r.served).bpm]
          /\ r.disk = own(r.served).disk
          /\ r.starting_index = starting_index + 1
     /\ ~r.ok =>
          /\ r.starting_index = starting_index
          /\ r.bpInstances = bpInstances
          /\ r.disk = disk
     /\ allFree(bpInstances) =>
          /\ r.ok
          /\ r.served = starting_index % NumInstances
          /\ allFree(r.bpInstances) =>
               (r2.ok /\ r2.served = (r.served + 1) % NumInstances)

\* The last successful New was served by another instance than the one at
\* the starting index, whose frames are all pinned.
C9_Witness_SkippedFullInstance ==
  /\ Len(news) > 0
  /\ starting_index > 0
  /\ served = news[Len(news)][2]
  /\ served # (starting_index - 1) % NumInstances
  /\ AllPinned(bpInstances[(starting_index - 1) % NumInstances])

\* C10: a Clock Victim that returns frame f takes f out of the evictable
\* set, so that Size() is one less than before the call.
C10_ClockVictimRemoves ==
  [][(rcall'.op = "Victim" /\ rcall'.ok /\ rcall' # rcall) =>
       /\ ~resident'[rcall'.frame_id]
       /\ ClockSize(resident') = ClockSize(resident) - 1]_vars

\* A Victim call has just returned a frame.
C10_Witness_VictimReturned ==
  /\ rcall.op = "Victim"
  /\ rcall.ok
  /\ rcall.frame_id \in ClockFrames

\* C11: the LRU deque holds each evictable frame exactly once, in the order
\* of the latest Unpin of each; Victim returns and removes the frame whose
\* latest Unpin is the oldest, or fails iff there is none; Unpin of a frame
\* already present moves it to the back; Pin of an absent frame does nothing.
C11_LRUOrder ==
  LET evictable == {f \in LRUFrames : stamp[f] > 0}
      v == LRUVictim(frames)
  IN /\ \A i, j \in 1 .. Len(frames) : frames[i] = frames[j] => i = j
     /\ {frames[i] : i \in 1 .. Len(frames)} = evictable
     /\ LRUSize(frames) = Cardinality(evictable)
     /\ v.ok <=> evictable # {}
     /\ v.ok =>
          /\ v.frame_id \in evictable
          /\ \A g \in evictable : stamp[v.frame_id] <= stamp[g]
          /\ ~InSeq(v.frames, v.frame_id)
          /\ v.frames = RemoveFirst(frames, v.frame_id)
     /\ \A f \in LRUFrames :
          LET u == LRUUnpin(frames, f)
          IN /\ Len(u) > 0 /\ u[Len(u)] = f
             /\ SubSeq(u, 1, Len(u) - 1) = RemoveFirst(frames, f)
             /\ f \notin evictable => LRUPin(frames, f) = frames

\* Three frames are evictable and the last call was an Unpin of one that was
\* already in the deque.
C11_Witness_ReUnpinned ==
  /\ lcall.op = "Unpin"
  /\ lcall.ok
  /\ Len(frames) = LRUNumPages
  /\ stamp[lcall.frame_id] = now
  /\ now > LRUNumPages

\* C12: no reachable state has one thread holding latch_ and waiting for a
\* frame's write latch while the holder of that write latch waits for latch_.
C12_NoLatchCycle ==
  ~ \E t1, t2 \in Threads :
      /\ thr # <<>>
      /\ t1 # t2
      /\ latch_ = t1
      /\ thr[t1].pc = "victim_latch"
      /\ rwlatch[thr[t1].id] = t2
      /\ thr[t2].pc \in {"hit", "unpin_lock", "delete_lock"}

\* A thread holds latch_ and is about to take the write latch of its victim.
C12_Witness_HoldsLatchWantsFrame ==
  \E t \in Threads :
    /\ thr # <<>>
    /\ latch_ = t
    /\ thr[t].pc = "victim_latch"
    /\ rwlatch[thr[t].id] = nullptr

\* C13: under any interleaving, no two frames hold the same valid page id.
C13_NoDuplicateResidency ==
  bpm.pages_ # <<>> =>
    \A f, g \in Frames :
      (bpm.pages_[f].page_id_ = bpm.pages_[g].page_id_
         /\ bpm.pages_[f].page_id_ # INVALID_PAGE_ID) => f = g

\* Two threads are inside a Fetch miss of the same page, each with a frame
\* of its own to install it in.
C13_Witness_TwoMissesSamePage ==
  /\ thr # <<>>
  /\ \E t1, t2 \in Threads :
       /\ t1 # t2
       /\ thr[t1].op = "Fetch" /\ thr[t1].pc = "install"
       /\ thr[t2].op = "Fetch" /\ thr[t2].pc = "install"
       /\ thr[t1].page_id = thr[t2].page_id
       /\ thr[t1].id # thr[t2].id

\* C14: between calls, every frame tracked by the replacer holds a valid
\* page, has pin_count 0 and is not on the free list.
C14_ReplacerFramesEvictable ==
  \A i \in 1 .. Len(bpm.replacer_) :
    LET f == bpm.replacer_[i]
    IN /\ bpm.pages_[f].page_id_ # INVALID_PAGE_ID
       /\ bpm.pages_[f].pin_count_ = 0
       /\ ~InSeq(bpm.free_list_, f)

\* An Unpin has just brought a pin_count to 0 and its frame is tracked by the
\* replacer while another frame is still pinned.
C14_Witness_TrackedAfterUnpin ==
  /\ call.op = "Unpin"
  /\ call.ok
  /\ Len(bpm.replacer_) = 1
  /\ bpm.pages_[bpm.replacer_[1]].pin_count_ = 0
  /\ \E g \in Frames : bpm.pages_[g].pin_count_ > 0

\* C15: a Delete that puts a frame on the free list whose dirty bit was set
\* issues WritePage for the frame's page.
C15_DeleteWritesDirtyPage ==
  \A x \in PageIds :
    LET i == FindFrame(bpm, x)
        r == DeletePgImp(bpm, disk, x)
    IN (i # nullptr /\ r.ok /\ bpm.pages_[i].is_dirty_
          /\ Len(r.bpm.free_list_) > Len(bpm.free_list_))
         => \E k \in 1 .. Len(r.writes) :
              r.writes[k] = <<x, bpm.pages_[i].data_>>

\* A page that was dirty has just been deleted and its frame is the last of
\* the free list.
C15_Witness_DeletedPage ==
  /\ call.op = "Delete"
  /\ call.ok
  /\ Len(bpm.free_list_) > 0
  /\ bpm.pages_[bpm.free_list_[Len(bpm.free_list_)]].page_id_ = INVALID_PAGE_ID
  /\ InSeq(bpm.replacer_, bpm.free_list_[Len(bpm.free_list_)])

\* C16: between calls, whatever page ids were passed, every frame on the
\* free list has page id INVALID, is clean and has pin_count 0.
C16_FreeFramesAreBlank ==
  \A i \in 1 .. Len(bpm.free_list_) :
    LET f == bpm.free_list_[i]
    IN /\ bpm.pages_[f].page_id_ = INVALID_PAGE_ID
       /\ ~bpm.pages_[f].is_dirty_
       /\ bpm.pages_[f].pin_count_ = 0

\* A Fetch of INVALID_PAGE_ID has just returned a page while a frame was on
\* the free list.
C16_Witness_FetchedInvalid ==
  /\ call.op = "Fetch"
  /\ call.ok
  /\ Len(bpm.free_list_) > 0
  /\ \A f \in Frames : bpm.pages_[f].page_id_ = INVALID_PAGE_ID

\* C17: between calls, whatever page ids were passed, the free list holds no
\* frame twice, its length plus the number of frames with a valid page id is
\* at most pool_size, and no frame on it holds a valid page id.
C17_FreeListDisjoint ==
  /\ \A i, j \in 1 .. Len(bpm.free_list_) :
       bpm.free_list_[i] = bpm.free_list_[j] => i = j
  /\ Len(bpm.free_list_)
       + Cardinality({f \in Frames :
                        bpm.pages_[f].page_id_ # INVALID_PAGE_ID})
       <= bpm.pool_size_
  /\ \A i \in 1 .. Len(bpm.free_list_) :
       bpm.pages_[bpm.free_list_[i]].page_id_ = INVALID_PAGE_ID

\* A Delete has just succeeded and left more entries on the free list than
\* there are frames.
C17_Witness_DeletedInvalid ==
  /\ call.op = "Delete"
  /\ call.ok
  /\ Len(bpm.free_list_) > bpm.pool_size_

\* C18: a successful Unpin(x, d) leaves the dirty bit of x equal to its
\* former value OR d, a failed Unpin leaves every dirty bit as it was, and the
\* page a New returns is dirty.
C18_UnpinKeepsDirty ==
  /\ \A x \in PageIds, d \in BOOLEAN :
       LET i == FindFrame(bpm, x)
           r == UnpinPgImp(bpm, disk, x, d)
       IN /\ r.ok =>
               /\ i # nullptr
               /\ r.bpm.pages_[i].is_dirty_ = (bpm.pages_[i].is_dirty_ \/ d)
               /\ \A g \in Frames \ {i} :
                    r.bpm.pages_[g].is_dirty_ = bpm.pages_[g].is_dirty_
          /\ ~r.ok =>
               \A g \in Frames :
                 r.bpm.pages_[g].is_dirty_ = bpm.pages_[g].is_dirty_
  /\ LET n == NewPgImp(bpm, disk)
     IN n.ok => /\ n.bpm.pages_[n.frame].page_id_ = n.page_id
                /\ n.bpm.pages_[n.frame].is_dirty_

\* An Unpin has just succeeded; one unpinned resident page is dirty and
\* another one is clean.
C18_Witness_UnpinnedDirtyAndClean ==
  /\ call.op = "Unpin"
  /\ call.ok
  /\ \E f, g \in Frames :
       /\ bpm.pages_[f].page_id_ \in PageIds
       /\ bpm.pages_[f].pin_count_ = 0
       /\ bpm.pages_[f].is_dirty_
       /\ bpm.pages_[g].page_id_ \in PageIds
       /\ bpm.pages_[g].pin_count_ = 0
       /\ ~bpm.pages_[g].is_dirty_

\* C19: with an evictable frame, Clock Victim returns a frame after at most
\* 2 * num_pages rounds of its loop; with none it returns false without a
\* round and changes nothing.
C19_ClockVictimBounded ==
  resident # <<>> =>
    LET r == ClockVictim(resident, clock, current_frame)
    IN IF \E f \in ClockFrames : resident[f]
       THEN /\ r.ok
            /\ r.frame_id \in ClockFrames
            /\ r.steps >= 1
            /\ r.steps <= 2 * ClockNumPages
       ELSE /\ ~r.ok
            /\ r.steps = 0
            /\ r.resident = resident
            /\ r.clock = clock
            /\ r.current_frame = current_frame

\* A Victim call has just returned a frame after a full sweep that cleared
\* every reference bit, one round more than there are frames.
C19_Witness_FullSweep ==
  /\ rcall.op = "Victim"
  /\ rcall.ok
  /\ rcall.steps = ClockNumPages + 1

\* C20: Clock Victim goes from the hand cyclically, skips non-resident slots,
\* clears the reference bit of the resident slots it passes whose bit is set,
\* returns the first resident slot it finds with the bit clear and leaves the
\* hand on the next slot; a frame whose bit is set is not returned while an
\* evictable frame with a clear bit exists; after Unpin of 0, 1, 2 on a new
\* replacer Victim returns 0, and after Unpin(0) the next Victim returns 1.
C20_ClockSecondChance ==
  /\ resident # <<>> =>
       LET n == ClockNumPages
           slot(k) == (current_frame + k) % n
           res == {k \in 0 .. (n - 1) : resident[slot(k)]}
           zero == {k \in res : ~clock[slot(k)]}
           first(S) == CHOOSE k \in S : \A j \in S : k <= j
           kstar == IF zero # {} THEN first(zero) ELSE first(res)
           passed == IF zero # {} THEN {slot(k) : k \in {j \in res : j < kstar}}
                     ELSE {slot(k) : k \in res}
           r == ClockVictim(resident, clock, current_frame)
       IN res # {} =>
            /\ r.ok
            /\ r.frame_id = slot(kstar)
            /\ r.current_frame = (slot(kstar) + 1) % n
            /\ r.clock = [f \in ClockFrames |-> clock[f] /\ f \notin passed]
            /\ zero # {} => ~clock[r.frame_id]
  /\ LET empty == [f \in ClockFrames |-> FALSE]
         u0 == ClockUnpin(empty, empty, 0)
         u1 == ClockUnpin(u0.resident, u0.clock, 1)
         u2 == ClockUnpin(u1.resident, u1.clock, 2)
         v1 == ClockVictim(u2.resident, u2.clock, ClockHandInit)
         u3 == ClockUnpin(v1.resident, v1.clock, 0)
         v2 == ClockVictim(u3.resident, u3.clock, v1.current_frame)
     IN /\ v1.ok /\ v1.frame_id = 0
        /\ v2.ok /\ v2.frame_id = 1

\* A Victim call has just passed over a resident frame, clearing its
\* reference bit, and returned a frame further on; a third frame is resident
\* with its reference bit set.
C20_Witness_SecondChanceGiven ==
  /\ rcall.op = "Victim"
  /\ rcall.ok
  /\ rcall.steps = 2
  /\ \E f \in ClockFrames :
       /\ f # rcall.frame_id
       /\ (f + 1) % ClockNumPages = rcall.frame_id
       /\ resident[f] /\ ~clock[f]
  /\ \E g \in ClockFrames : resident[g] /\ clock[g]

====
